---- MODULE Spec2Model ----
(***************************************************************************)
(* Model of the MQTT 3.1 client of mqtt_dewpoint: the Session              *)
(* (mqtt/client.rs, struct Client), its three workers per connection       *)
(* (o_stream writer, i_stream reader, ping) and the packet codec           *)
(* (mqtt/message.rs).  Buffers are sequences of bytes (0..255).            *)
(*                                                                         *)
(* Granularity.  The caller thread owns the Client (&mut self), so its     *)
(* fields connected and next_message_id change only in caller steps.       *)
(* The two Mutex-guarded collections and the mpsc channel are shared with  *)
(* the workers; every step below touches at most one of them, so the       *)
(* interleavings of the model are those of the threads.                    *)
(*                                                                         *)
(* In Spec the reader is modelled frame by frame: each read hands it one   *)
(* frame of the broker (frames arriving in separate segments).  SpecFraming *)
(* follows its read loop byte by byte, SpecIds the packet-id counter over  *)
(* its whole u8 range, SpecCodec the codec functions on their own.         *)
(***************************************************************************)
EXTENDS Integers, Sequences, FiniteSets, TLC

\* ------------------------------------------------------------------ bounds
MaxConn   == 2   \* connections ever opened by connect
MaxEvents == 4   \* API calls, PINGREQs, frames and closes of the broker, in a behaviour

Conns == 1..MaxConn

\* ------------------------------------------------------- message.rs: codec
CONNACK    == <<32, 2, 0, 0>>
DISCONNECT == <<224, 0>>
PINGREQ    == <<192, 0>>
PINGRESP   == <<208, 0>>

\* u8 arithmetic: an overflowing + panics when overflow checks are on (debug
\* build) and wraps when they are off (release build).
U8 == 256

Res(kind, id, topic, qos, payload) ==
    [kind |-> kind, id |-> id, topic |-> topic, qos |-> qos, payload |-> payload]

ErrRes(e) == Res(e, <<>>, <<>>, 0, <<>>)

PanicRes == ErrRes("Panic")

IsErr(r) == r.kind \in {"TooShort", "Protocol", "UnknownType", "UnsupportedQos",
                        "InvalidQos", "LengthTooLarge", "EmptyPublish", "Utf8Error"}

\* String::from_utf8 on the inputs of this model: bytes below 128 are ASCII; the
\* model draws no byte sequence that is a valid multi-byte encoding.
IsUtf8(s) == \A i \in 1..Len(s) : s[i] < 128

\* publish[a..b] (0-based, half-open) as a 1-based SubSeq
Slice(v, a, b) == SubSeq(v, a + 1, b)

parse_publish(publish) ==
    LET q   == (publish[1] \div 2) % 4      \* publish[0] & 6
        len == publish[2]
    IN  IF q = 2 THEN ErrRes("UnsupportedQos")
        ELSE IF q = 3 THEN ErrRes("InvalidQos")
        ELSE IF len >= 127 THEN ErrRes("LengthTooLarge")
        ELSE IF len = 0 THEN ErrRes("EmptyPublish")
        ELSE IF Len(publish) < 4 THEN PanicRes              \* publish[3]
        ELSE LET topic_len == publish[3] * 256 + publish[4]
             IN  IF topic_len + 4 > Len(publish) THEN PanicRes   \* publish[4..topic_len + 4]
                 ELSE LET topic == Slice(publish, 4, topic_len + 4)
                      IN  IF ~IsUtf8(topic) THEN ErrRes("Utf8Error")
                          ELSE IF q = 1
                               THEN IF topic_len + 6 > Len(publish) THEN PanicRes
                                    ELSE Res("Publish", Slice(publish, topic_len + 4, topic_len + 6),
                                             topic, 1, Slice(publish, topic_len + 6, Len(publish)))
                               ELSE Res("Publish", <<>>, topic, 0,
                                        Slice(publish, topic_len + 4, Len(publish)))

\* oc: overflow checks on (debug build) or off (release build)
parse_slice(v, oc) ==
    IF Len(v) < 2 THEN ErrRes("TooShort")
    ELSE IF v[2] + 2 >= U8 /\ oc THEN PanicRes              \* v[1] + 2 overflows
    ELSE LET n == (v[2] + 2) % U8
         IN  IF n > Len(v) THEN PanicRes                    \* &v[..n] out of range
             ELSE IF n = 0 THEN PanicRes                    \* content[0] of an empty slice
             ELSE LET content == SubSeq(v, 1, n)
                      t       == content[1] \div 16
                  IN  IF t = 2 THEN (IF content # CONNACK THEN ErrRes("Protocol")
                                     ELSE Res("Connack", <<>>, <<>>, 0, <<>>))
                      ELSE IF t = 3 THEN parse_publish(v)
                      ELSE IF t = 9 THEN Res("Suback", <<>>, <<>>, 0, v)
                      ELSE IF t = 13 THEN (IF content # PINGRESP THEN ErrRes("Protocol")
                                           ELSE Res("Pingresp", <<>>, <<>>, 0, <<>>))
                      ELSE ErrRes("UnknownType")

make_puback(msg_id) == <<64, 2, msg_id[1], msg_id[2]>>

\* super::encode_length: base-128 digits, least significant first, the
\* continuation bit on every byte but the last
RECURSIVE encode_length(_)
encode_length(len) ==
    IF len < 128 THEN <<len>>
    ELSE <<128 + (len % 128)>> \o encode_length(len \div 128)

\* a make_publish that writes the topic length as one byte
MakePublishShortTopicLen(topic, payload) ==
    <<48>> \o encode_length(Len(topic) + Len(payload) + 1)
           \o <<Len(topic)>> \o topic \o payload

make_publish(topic, payload) ==
    <<48>> \o encode_length(Len(topic) + Len(payload) + 2)
           \o <<0, Len(topic)>> \o topic \o payload

\* client.rs make_subscribe: the packet built from the topic and next_message_id
make_subscribe(topic, next_message_id) ==
    <<130, (Len(topic) + 5) % U8, 0, next_message_id, 0, Len(topic) % U8>>
        \o topic \o <<1>>

IsSubscribe(b) == Len(b) >= 6 /\ b[1] = 130

SubscribeId(b) == b[4]

SubscribeTopic(b) == SubSeq(b, 7, Len(b) - 1)


\* --------------------------------------------------------- inputs (bounded)
Topics == {<<97>>}                       \* "a"

Payloads == {<<120>>}                    \* "x"

\* A PublishHandler returns None or Some(reply); the reply of main.rs's
\* calculate_dewpoint is a PUBLISH built by make_publish.
Handlers == {"ReturnsNone", "ReturnsSome"}

Reply == make_publish(<<100>>, <<49>>)

\* the 4 bytes read after CONNECT
ConnectReplies == { CONNACK,
                    <<32, 2, 0, 1>>,     \* CONNACK, return code 1
                    <<32, 3, 0, 0>>,     \* remaining length beyond the 4 bytes
                    <<208, 0, 0, 0>>,    \* PINGRESP
                    <<144, 2, 0, 1>> }   \* SUBACK

SubackFrame(id) == <<144, 3, 0, id, 1>>

\* frames the broker may send on an open connection
Frames == { SubackFrame(1),
            <<50, 6, 0, 1, 97, 0, 27, 120>>,   \* PUBLISH "a", QoS 1, id [0,27], "x"
            PINGRESP,
            <<0, 1, 1>>,                       \* unknown packet type
            <<48, 3, 0, 5, 97>> }              \* PUBLISH, topic length 5 beyond the frame

\* The build profile: u8 overflow checks on (debug, the default of cargo build
\* and cargo test).  No u8 addition overflows on the inputs and within the
\* bounds of Spec, so its behaviours are those of either profile.
overflow_checks == TRUE

IsSuback(f) == Len(f) >= 4 /\ f[1] \div 16 = 9

\* ------------------------------------------------------------------- state
VARIABLES
    connected,              \* Client.connected: 0 = None, c = Some(tx of connection c)
    next_message_id,        \* Client.next_message_id
    pending_subscribe_ids,  \* Mutex<Vec<u8>>
    publish_functions,      \* Mutex<HashMap<String, PublishHandler>>
    pfLock,                 \* holder of the publish_functions lock: 0 or a reader
    pfPoisoned,             \* publish_functions Mutex poisoned
    psPoisoned,             \* pending_subscribe_ids Mutex poisoned
    nconn,                  \* connections opened so far
    queue,                  \* per connection: the mpsc channel's buffered messages
    wire,                   \* per connection: buffers written to the stream
    sock,                   \* per connection: "none", "open", "peer_closed", "shutdown"
    inbound,                \* per connection: frames sent by the broker, unread
    wpc, rpc, ppc,          \* per connection: writer, reader, pinger position
    rresp,                  \* reader: responses still to send
    callerPc,               \* caller thread position
    call,                   \* the caller's current / last API call and its outcome
    nevents,                \* API calls made, frames sent by the broker, PINGREQs enqueued
    \* history
    sent,                   \* per connection: every buffer accepted by tx.send, in order
    discIdx,                \* per connection: index in sent of disconnect()'s DISCONNECT
    recorded,               \* ids ever pushed onto pending_subscribe_ids
    acked,                  \* ids of SUBSCRIBEs the broker acknowledged after seeing them
    spurious,               \* ids of SUBACKs the broker sent unsolicited
    \* the functions and the read loop on their own (SpecIds, SpecCodec, SpecFraming)
    oc,                     \* build profile: u8 overflow checks on (debug) or off (release)
    arg,                    \* the input a function is applied to
    ret,                    \* what it returned
    stream,                 \* the segments of bytes the socket has still to deliver
    bufs                    \* the reader's buf of each loop iteration, in order

sessionVars == <<connected, next_message_id, pending_subscribe_ids, publish_functions,
                 pfLock, pfPoisoned, psPoisoned>>

connVars == <<nconn, queue, wire, sock, inbound, wpc, rpc, ppc, rresp, sent, discIdx>>

brokerVars == <<acked, spurious>>

unitVars == <<oc, arg, ret, stream, bufs>>

vars == <<sessionVars, connVars, callerPc, call, nevents,
          recorded, brokerVars, unitVars>>

NoCall == [op |-> "none", arg |-> <<>>, handler |-> "none", msg |-> <<>>,
           pre |-> 0, res |-> "none"]

\* Client::new, no connection yet
ClientNew ==
    /\ connected = 0
    /\ next_message_id = 1
    /\ pending_subscribe_ids = <<>>
    /\ publish_functions = [t \in Topics |-> "absent"]
    /\ pfLock = 0 /\ pfPoisoned = FALSE /\ psPoisoned = FALSE
    /\ nconn = 0
    /\ queue = [c \in Conns |-> <<>>]
    /\ wire = [c \in Conns |-> <<>>]
    /\ sent = [c \in Conns |-> <<>>]
    /\ discIdx = [c \in Conns |-> 0]
    /\ sock = [c \in Conns |-> "none"]
    /\ inbound = [c \in Conns |-> <<>>]
    /\ wpc = [c \in Conns |-> "none"]
    /\ rpc = [c \in Conns |-> "none"]
    /\ ppc = [c \in Conns |-> "none"]
    /\ rresp = [c \in Conns |-> <<>>]
    /\ callerPc = "idle"
    /\ call = NoCall
    /\ nevents = 0
    /\ recorded = {} /\ acked = {} /\ spurious = {}

\* nothing is applied on its own while the Session and its workers run
UnitIdle ==
    /\ oc = TRUE
    /\ arg = <<>>
    /\ ret = <<>>
    /\ stream = <<>>
    /\ bufs = <<>>

Init == ClientNew /\ UnitIdle

\* the Receiver of connection c exists as long as the o_stream thread runs
ReceiverAlive(c) == wpc[c] = "run"

\* a successful tx.send(buf) on connection c
Enqueue(c, buf) ==
    /\ queue' = [queue EXCEPT ![c] = Append(@, buf)]
    /\ sent' = [sent EXCEPT ![c] = Append(@, buf)]

CanCall == callerPc = "idle" /\ nevents < MaxEvents

\* the call returns res; its locals (handler, sub_msg) are gone
Returned(res) ==
    /\ callerPc' = "idle"
    /\ call' = [call EXCEPT !.res = res, !.handler = "none", !.msg = <<>>]

\* the call panics: the caller thread unwinds
Panicked ==
    /\ callerPc' = "panicked"
    /\ call' = [call EXCEPT !.res = "panic", !.handler = "none", !.msg = <<>>]


\* ------------------------------------------------------- caller: connect
\* client.rs 163-177: the channel and the three workers of a new connection
SpawnWorkers(c) ==
    /\ nconn' = c
    /\ sock' = [sock EXCEPT ![c] = "open"]
    /\ wpc' = [wpc EXCEPT ![c] = "run"]
    /\ rpc' = [rpc EXCEPT ![c] = "read"]
    /\ ppc' = [ppc EXCEPT ![c] = "run"]
    /\ connected' = c

\* Client::connect, the TCP connection made and CONNECT written; reply is what
\* read_exact put into buf
ConnectReply(reply) ==
    /\ CanCall /\ nconn < MaxConn
    /\ nevents' = nevents + 1
    /\ LET r  == parse_slice(reply, overflow_checks)
           c0 == [NoCall EXCEPT !.op = "connect", !.arg = reply, !.pre = connected]
       IN  IF r.kind = "Panic" \/ IsErr(r)
           THEN \* parse_slice(&buf).unwrap()
                /\ callerPc' = "panicked"
                /\ call' = [c0 EXCEPT !.res = "panic"]
                /\ UNCHANGED <<connected, nconn, sock, wpc, rpc, ppc>>
           ELSE IF r.kind = "Connack"
           THEN /\ SpawnWorkers(nconn + 1)
                /\ callerPc' = "idle"
                /\ call' = [c0 EXCEPT !.res = "Ok"]
           ELSE \* bail!("Expected CONNACK from server, got ...")
                /\ callerPc' = "idle"
                /\ call' = [c0 EXCEPT !.res = "UnexpectedMessage"]
                /\ UNCHANGED <<connected, nconn, sock, wpc, rpc, ppc>>
    /\ UNCHANGED <<next_message_id, pending_subscribe_ids,
                   publish_functions, pfLock, pfPoisoned, psPoisoned,
                   queue, wire, inbound, rresp, sent, discIdx,
                   recorded, brokerVars, unitVars>>

\* Client::connect when TcpStream::connect, the write of CONNECT or read_exact
\* fails: the ? returns the I/O error
ConnectIoError ==
    /\ CanCall
    /\ nevents' = nevents + 1
    /\ callerPc' = "idle"
    /\ call' = [NoCall EXCEPT !.op = "connect", !.pre = connected, !.res = "Io"]
    /\ UNCHANGED <<sessionVars, connVars, recorded, brokerVars, unitVars>>

\* ----------------------------------------------------- caller: subscribe
\* Client::subscribe, line 187: make_subscribe builds the packet and advances
\* next_message_id (u8 += 1)
SubscribeCall(topic, f) ==
    /\ CanCall
    /\ nevents' = nevents + 1
    /\ LET c0 == [NoCall EXCEPT !.op = "subscribe", !.arg = topic, !.handler = f,
                                !.pre = connected]
       IN  IF Len(topic) > 127 \/ (next_message_id + 1 >= U8 /\ overflow_checks)
           THEN /\ callerPc' = "panicked"
                /\ call' = [c0 EXCEPT !.res = "panic"]
                /\ UNCHANGED next_message_id
           ELSE /\ callerPc' = "sub_insert"
                /\ call' = [c0 EXCEPT !.msg = make_subscribe(topic, next_message_id),
                                      !.res = "pending"]
                /\ next_message_id' = (next_message_id + 1) % U8
    /\ UNCHANGED <<connected, pending_subscribe_ids, publish_functions,
                   pfLock, pfPoisoned, psPoisoned, connVars, recorded, brokerVars, unitVars>>

\* the caller thread as the holder of a lock (the readers are 1..MaxConn)
CallerThread == MaxConn + 1

\* a subscribe that binds the guard of publish_functions to a local: the
\* guard lives on to the end of the call
SubscribeInsertKeepsGuard ==
    /\ callerPc = "sub_insert"
    /\ pfPoisoned \/ pfLock = 0
    /\ IF pfPoisoned
       THEN /\ Panicked
            /\ UNCHANGED <<publish_functions, pfLock>>
       ELSE /\ publish_functions' = [publish_functions EXCEPT ![call.arg] = call.handler]
            /\ IF connected = 0
               THEN Returned("NotConnected") /\ UNCHANGED pfLock
               ELSE callerPc' = "sub_push" /\ pfLock' = CallerThread /\ UNCHANGED call
    /\ UNCHANGED <<connected, next_message_id, pending_subscribe_ids,
                   pfPoisoned, psPoisoned, connVars, nevents,
                   recorded, brokerVars, unitVars>>

\* lines 191-199: insert the handler under the publish_functions lock, then
\* look at self.connected
SubscribeInsert ==
    /\ callerPc = "sub_insert"
    /\ pfPoisoned \/ pfLock = 0
    /\ IF pfPoisoned
       THEN /\ Panicked
            /\ UNCHANGED publish_functions
       ELSE /\ publish_functions' = [publish_functions EXCEPT ![call.arg] = call.handler]
            /\ IF connected = 0
               THEN Returned("NotConnected")
               ELSE callerPc' = "sub_push" /\ UNCHANGED call
    /\ UNCHANGED <<connected, next_message_id, pending_subscribe_ids,
                   pfLock, pfPoisoned, psPoisoned, connVars, nevents,
                   recorded, brokerVars, unitVars>>

\* a subscribe that enqueues without recording the id
SubscribeNoPush ==
    /\ callerPc = "sub_push"
    /\ callerPc' = "sub_send"
    /\ UNCHANGED <<sessionVars, connVars, nevents, recorded, brokerVars, call, unitVars>>

\* lines 201-204: push sub_msg[3] under the pending_subscribe_ids lock
SubscribePush ==
    /\ callerPc = "sub_push"
    /\ IF psPoisoned
       THEN /\ Panicked
            /\ UNCHANGED <<pending_subscribe_ids, recorded>>
       ELSE /\ pending_subscribe_ids' = Append(pending_subscribe_ids, call.msg[4])
            /\ recorded' = recorded \cup {call.msg[4]}
            /\ callerPc' = "sub_send" /\ UNCHANGED call
    /\ UNCHANGED <<connected, next_message_id, publish_functions,
                   pfLock, pfPoisoned, psPoisoned, connVars, nevents, brokerVars, unitVars>>

\* line 206: tx.send(sub_msg)?
SubscribeSend ==
    /\ callerPc = "sub_send"
    /\ IF ReceiverAlive(connected)
       THEN Enqueue(connected, call.msg) /\ Returned("Ok")
       ELSE Returned("SendError") /\ UNCHANGED <<queue, sent>>
    /\ UNCHANGED <<sessionVars, nconn, wire, sock, inbound, wpc, rpc,
                   ppc, rresp, discIdx, nevents, recorded, brokerVars, unitVars>>

\* ------------------------------------------------------- caller: publish
\* a publish that returns an error where the code panics
PublishNotConnectedError(c0) ==
    /\ callerPc' = "idle"
    /\ call' = [c0 EXCEPT !.res = "NotConnected", !.msg = <<>>]

\* lines 232-234: self.connected.as_ref().expect("Can't publish before connect")
\* on None
PublishNotConnected(c0) ==
    /\ callerPc' = "panicked"
    /\ call' = [c0 EXCEPT !.res = "panic", !.msg = <<>>]

\* Client::publish
Publish(topic, payload) ==
    /\ CanCall
    /\ nevents' = nevents + 1
    /\ LET c0 == [NoCall EXCEPT !.op = "publish", !.arg = topic, !.pre = connected,
                                !.msg = make_publish(topic, payload)]
       IN  IF connected = 0 /\ Len(topic) <= 127
           THEN /\ PublishNotConnected(c0)
                /\ UNCHANGED <<queue, sent>>
           ELSE IF Len(topic) > 127 \/ ~ReceiverAlive(connected)
           THEN \* make_publish's panic, or tx.send(msg).unwrap()
                /\ callerPc' = "panicked"
                /\ call' = [c0 EXCEPT !.res = "panic", !.msg = <<>>]
                /\ UNCHANGED <<queue, sent>>
           ELSE /\ Enqueue(connected, c0.msg)
                /\ callerPc' = "idle"
                /\ call' = [c0 EXCEPT !.res = "Ok", !.msg = <<>>]
    /\ UNCHANGED <<sessionVars, nconn, wire, sock, inbound, wpc, rpc,
                   ppc, rresp, discIdx, recorded, brokerVars, unitVars>>

\* ---------------------------------------------------- caller: disconnect
\* the as_ref() of mqtt.rs 305, which leaves the connection in place
AsRef(conn) == conn

\* self.connected.take()
Take(conn) == 0

\* a disconnect that does nothing when there is no connection
DisconnectNotConnectedIgnored(c0) ==
    /\ callerPc' = "idle"
    /\ call' = [c0 EXCEPT !.res = "Ok"]

\* lines 214-217: take().expect("Attempt to disconnect while not connected")
\* on None
DisconnectNotConnected(c0) ==
    /\ callerPc' = "panicked"
    /\ call' = [c0 EXCEPT !.res = "panic"]

\* Client::disconnect, lines 214-219: take() the connection, send DISCONNECT
DisconnectCall ==
    /\ CanCall
    /\ nevents' = nevents + 1
    /\ LET c0 == [NoCall EXCEPT !.op = "disconnect", !.pre = connected]
       IN  IF connected = 0
           THEN /\ DisconnectNotConnected(c0)
                /\ UNCHANGED <<connected, queue, sent, discIdx>>
           ELSE IF ~ReceiverAlive(connected)
           THEN \* tx.send(DISCONNECT).unwrap()
                /\ connected' = Take(connected)
                /\ callerPc' = "panicked"
                /\ call' = [c0 EXCEPT !.res = "panic"]
                /\ UNCHANGED <<queue, sent, discIdx>>
           ELSE /\ connected' = Take(connected)
                /\ Enqueue(connected, DISCONNECT)
                /\ discIdx' = [discIdx EXCEPT ![connected] = Len(sent[connected]) + 1]
                /\ callerPc' = "disc_join"
                /\ call' = [c0 EXCEPT !.res = "pending"]
    /\ UNCHANGED <<next_message_id, pending_subscribe_ids,
                   publish_functions, pfLock, pfPoisoned, psPoisoned, nconn, wire, sock,
                   inbound, wpc, rpc, ppc, rresp, recorded, brokerVars, unitVars>>

\* the disconnect of mqtt.rs 303-311: no join, the call returns at once
DisconnectNoJoin ==
    /\ callerPc = "disc_join"
    /\ Returned("Ok")
    /\ UNCHANGED <<sessionVars, connVars, nevents, recorded, brokerVars, unitVars>>

\* lines 220-226: join the o_stream thread
DisconnectJoin ==
    /\ callerPc = "disc_join"
    /\ wpc[call.pre] \in {"done", "panicked"}
    /\ IF wpc[call.pre] = "done" THEN Returned("Ok") ELSE Panicked
    /\ UNCHANGED <<sessionVars, connVars, nevents, recorded, brokerVars, unitVars>>


\* ---------------------------------------------------------------- writer
\* what the stream does with the writer's I/O: everything on an open stream
\* succeeds (a write is taken to complete or fail, never to block for ever);
\* on a stream the peer has closed the write or the shutdown may fail
IoOutcomes(c) ==
    IF sock[c] = "open" THEN {"ok"} ELSE {"ok", "write_err", "shutdown_err"}

\* the thread ends: its Receiver is dropped with what is still buffered
WriterExit(c, how) ==
    /\ wpc' = [wpc EXCEPT ![c] = how]
    /\ queue' = [queue EXCEPT ![c] = <<>>]

\* the writer of mqtt.rs 203-208: no test for DISCONNECT, the loop goes on
WriterStepNoBreak(c, msg, rest, io) ==
    IF io = "write_err"
    THEN /\ WriterExit(c, "panicked")
         /\ UNCHANGED <<wire, sock>>
    ELSE /\ wire' = [wire EXCEPT ![c] = Append(@, msg)]
         /\ queue' = [queue EXCEPT ![c] = rest]
         /\ UNCHANGED <<wpc, sock>>

\* start_out_thread, lines 350-357, one iteration of the loop on the message
\* msg that recv returned, rest being what stays buffered: write_all, flush,
\* the test for DISCONNECT, shutdown and break
WriterStep(c, msg, rest, io) ==
    IF io = "write_err"
    THEN \* write_all(..).unwrap()
         /\ WriterExit(c, "panicked")
         /\ UNCHANGED <<wire, sock>>
    ELSE /\ wire' = [wire EXCEPT ![c] = Append(@, msg)]
         /\ IF msg = DISCONNECT
            THEN IF io = "shutdown_err"
                 THEN \* shutdown(Both).unwrap()
                      /\ WriterExit(c, "panicked")
                      /\ UNCHANGED sock
                 ELSE /\ sock' = [sock EXCEPT ![c] = "shutdown"]
                      /\ WriterExit(c, "done")
            ELSE /\ queue' = [queue EXCEPT ![c] = rest]
                 /\ UNCHANGED <<wpc, sock>>

\* a channel handing out the newest message first
RecvNewest(q) == [msg |-> q[Len(q)], rest |-> SubSeq(q, 1, Len(q) - 1)]

\* rx.recv() returns the oldest buffered message (std::sync::mpsc is FIFO)
Recv(q) == [msg |-> Head(q), rest |-> Tail(q)]

\* start_out_thread: while let Ok(msg) = rx.recv() { ... }.  recv blocks while
\* the channel is empty; it cannot fail while the writer runs, the pinger
\* keeping its Sender for as long as its sends succeed.
Writer(c) ==
    /\ wpc[c] = "run"
    /\ queue[c] # <<>>
    /\ \E io \in IoOutcomes(c) :
         WriterStep(c, Recv(queue[c]).msg, Recv(queue[c]).rest, io)
    /\ UNCHANGED <<sessionVars, nconn, inbound, rpc, ppc, rresp,
                   sent, discIdx, callerPc, call, nevents, recorded, brokerVars, unitVars>>

\* ---------------------------------------------------------------- pinger
\* a pinger that goes on when its send fails
PingerIgnoresSendError(c) ==
    /\ ppc[c] = "run"
    /\ ReceiverAlive(c)
    /\ nevents < MaxEvents
    /\ nevents' = nevents + 1
    /\ Enqueue(c, PINGREQ)
    /\ UNCHANGED <<sessionVars, nconn, wire, sock, inbound, wpc, rpc, ppc,
                   rresp, discIdx, callerPc, call, recorded, brokerVars, unitVars>>

\* start_ping_thread, one iteration: tx.send(PINGREQ).unwrap(), then sleep
Pinger(c) ==
    /\ ppc[c] = "run"
    /\ IF ReceiverAlive(c)
       THEN /\ nevents < MaxEvents
            /\ nevents' = nevents + 1
            /\ Enqueue(c, PINGREQ)
            /\ UNCHANGED ppc
       ELSE /\ ppc' = [ppc EXCEPT ![c] = "panicked"]
            /\ UNCHANGED <<nevents, queue, sent>>
    /\ UNCHANGED <<sessionVars, nconn, wire, sock, inbound, wpc, rpc,
                   rresp, discIdx, callerPc, call, recorded, brokerVars, unitVars>>

\* ---------------------------------------------------------------- reader
\* start_in_thread, lines 251-266: the frame the next read puts into buf.
\* The read is a step of the reader alone, taken here together with the
\* dispatch of the frame.
CanRead(c) == rpc[c] = "read" /\ inbound[c] # <<>>

Frame(c) == Head(inbound[c])

\* a reader whose blocked read only a closure by the peer ends: shutting the
\* socket down locally leaves it blocked
ReaderEofPeerOnly(c) ==
    /\ rpc[c] = "read"
    /\ inbound[c] = <<>>
    /\ sock[c] = "peer_closed"
    /\ rpc' = [rpc EXCEPT ![c] = "done"]
    /\ UNCHANGED <<sessionVars, nconn, queue, wire, sock, inbound, wpc,
                   ppc, rresp, sent, discIdx, callerPc, call, nevents,
                   recorded, brokerVars, unitVars>>

\* lines 252-254: the header read returns 0 (stream shut down or closed by the
\* peer, nothing left to read): break
ReaderEof(c) ==
    /\ rpc[c] = "read"
    /\ inbound[c] = <<>>
    /\ sock[c] \in {"peer_closed", "shutdown"}
    /\ rpc' = [rpc EXCEPT ![c] = "done"]
    /\ UNCHANGED <<sessionVars, nconn, queue, wire, sock, inbound, wpc,
                   ppc, rresp, sent, discIdx, callerPc, call, nevents,
                   recorded, brokerVars, unitVars>>

\* line 252: the header read fails (read timeout on an idle open stream, reset
\* by the peer): read(..).unwrap()
ReaderIoError(c) ==
    /\ rpc[c] = "read"
    /\ inbound[c] = <<>>
    /\ sock[c] \in {"open", "peer_closed"}
    /\ rpc' = [rpc EXCEPT ![c] = "panicked"]
    /\ UNCHANGED <<sessionVars, nconn, queue, wire, sock, inbound, wpc,
                   ppc, rresp, sent, discIdx, callerPc, call, nevents,
                   recorded, brokerVars, unitVars>>

\* handle_suback on the Vec behind the lock: remove the first occurrence
RemoveFirst(s, x) ==
    IF \E i \in 1..Len(s) : s[i] = x
    THEN LET pos == CHOOSE i \in 1..Len(s) : s[i] = x /\ \A j \in 1..(i - 1) : s[j] # x
         IN  SubSeq(s, 1, pos - 1) \o SubSeq(s, pos + 1, Len(s))
    ELSE s

\* truncate(pos) in place of remove(pos): the ids pushed after the
\* acknowledged one go with it
HandleSubackTruncate(suback, pending) ==
    IF \E i \in 1..Len(pending) : pending[i] = suback[4]
    THEN SubSeq(pending, 1,
                (CHOOSE i \in 1..Len(pending) :
                    pending[i] = suback[4] /\ \A j \in 1..(i - 1) : pending[j] # suback[4]) - 1)
    ELSE pending

handle_suback(suback, pending) == RemoveFirst(pending, suback[4])

\* a handle_publish that pushes the handler's reply first
HandlePublishReplyFirst(id, topic, qos, payload, f) ==
    (IF f = "ReturnsSome" THEN <<Reply>> ELSE <<>>)
        \o (IF qos = 1 THEN <<make_puback(id)>> ELSE <<>>)

\* handle_publish: the PUBACK of a QoS 1 PUBLISH, then the handler's reply
handle_publish(id, topic, qos, payload, f) ==
    (IF qos = 1 THEN <<make_puback(id)>> ELSE <<>>)
        \o (IF f = "ReturnsSome" THEN <<Reply>> ELSE <<>>)

\* publish_functions.get(&topic)
GetHandler(topic) ==
    IF topic \in DOMAIN publish_functions THEN publish_functions[topic] ELSE "absent"

\* lines 267-269, 291-293: Pingresp, an unexpected message or a parse error;
\* a panic inside parse_slice ends the thread
ReaderDispatchOther(c) ==
    /\ CanRead(c)
    /\ LET r == parse_slice(Frame(c), overflow_checks)
       IN  /\ r.kind \notin {"Suback", "Publish"}
           /\ rpc' = [rpc EXCEPT ![c] = IF r.kind = "Panic" THEN "panicked" ELSE "read"]
    /\ inbound' = [inbound EXCEPT ![c] = Tail(@)]
    /\ UNCHANGED <<sessionVars, nconn, queue, wire, sock, wpc,
                   ppc, rresp, sent, discIdx, callerPc, call, nevents,
                   recorded, brokerVars, unitVars>>

\* lines 270-275: Suback, handle_suback under the pending_subscribe_ids lock
ReaderDispatchSuback(c) ==
    /\ CanRead(c)
    /\ LET r == parse_slice(Frame(c), overflow_checks)
       IN  /\ r.kind = "Suback"
           /\ IF psPoisoned
              THEN /\ rpc' = [rpc EXCEPT ![c] = "panicked"]
                   /\ UNCHANGED <<pending_subscribe_ids, psPoisoned>>
              ELSE IF Len(r.payload) < 4
              THEN \* suback[3] out of range, the guard is held
                   /\ rpc' = [rpc EXCEPT ![c] = "panicked"]
                   /\ psPoisoned' = TRUE
                   /\ UNCHANGED pending_subscribe_ids
              ELSE /\ pending_subscribe_ids' = handle_suback(r.payload, pending_subscribe_ids)
                   /\ rpc' = [rpc EXCEPT ![c] = "read"]
                   /\ UNCHANGED psPoisoned
    /\ inbound' = [inbound EXCEPT ![c] = Tail(@)]
    /\ UNCHANGED <<connected, next_message_id, publish_functions, pfLock,
                   pfPoisoned, nconn, queue, wire, sock, wpc, ppc, rresp,
                   sent, discIdx, callerPc, call, nevents, recorded, brokerVars, unitVars>>

\* lines 276-286: Publish, the publish_functions lock is taken, the handler
\* looked up and run by handle_publish; the guard lives to the end of the arm
ReaderDispatchPublish(c) ==
    /\ CanRead(c)
    /\ LET r == parse_slice(Frame(c), overflow_checks)
       IN  /\ r.kind = "Publish"
           /\ pfPoisoned \/ pfLock = 0
           /\ IF pfPoisoned
              THEN \* lock().expect("Error locking on publish functions")
                   /\ rpc' = [rpc EXCEPT ![c] = "panicked"]
                   /\ UNCHANGED <<pfLock, rresp>>
              ELSE LET responses == handle_publish(r.id, r.topic, r.qos, r.payload,
                                                   GetHandler(r.topic))
                   IN  /\ rresp' = [rresp EXCEPT ![c] = responses]
                       /\ IF responses = <<>>
                          THEN UNCHANGED <<pfLock, rpc>>    \* nothing to send: the arm ends
                          ELSE pfLock' = c /\ rpc' = [rpc EXCEPT ![c] = "send"]
    /\ inbound' = [inbound EXCEPT ![c] = Tail(@)]
    /\ UNCHANGED <<connected, next_message_id, pending_subscribe_ids,
                   publish_functions, pfPoisoned, psPoisoned, nconn, queue, wire, sock,
                   wpc, ppc, sent, discIdx, callerPc, call, nevents,
                   recorded, brokerVars, unitVars>>

\* lines 287-290: tx.send(res).unwrap() for each response, the guard still
\* held; a failed send panics and poisons the lock; after the last response
\* the arm ends and the guard is dropped
ReaderSend(c) ==
    /\ rpc[c] = "send"
    /\ IF ReceiverAlive(c)
       THEN /\ Enqueue(c, Head(rresp[c]))
            /\ rresp' = [rresp EXCEPT ![c] = Tail(@)]
            /\ IF Tail(rresp[c]) = <<>>
               THEN pfLock' = 0 /\ rpc' = [rpc EXCEPT ![c] = "read"]
               ELSE UNCHANGED <<pfLock, rpc>>
            /\ UNCHANGED pfPoisoned
       ELSE /\ pfLock' = 0
            /\ pfPoisoned' = TRUE
            /\ rpc' = [rpc EXCEPT ![c] = "panicked"]
            /\ rresp' = [rresp EXCEPT ![c] = <<>>]
            /\ UNCHANGED <<queue, sent>>
    /\ UNCHANGED <<connected, next_message_id, pending_subscribe_ids,
                   publish_functions, psPoisoned, nconn, wire, sock, inbound, wpc, ppc,
                   discIdx, callerPc, call, nevents, recorded, brokerVars, unitVars>>

\* ---------------------------------------------------------------- broker
SubscribeOnWire(c, id) ==
    \E i \in 1..Len(wire[c]) : IsSubscribe(wire[c][i]) /\ SubscribeId(wire[c][i]) = id

\* the broker sends a frame on an open connection.  A SUBACK answering a
\* SUBSCRIBE it has received, once, is an acknowledgement; any other SUBACK is
\* unsolicited.
BrokerSend(c, f) ==
    /\ sock[c] = "open"
    /\ rpc[c] \in {"read", "send"}     \* a frame no reader is left to read is never seen
    /\ nevents < MaxEvents
    /\ nevents' = nevents + 1
    /\ inbound' = [inbound EXCEPT ![c] = Append(@, f)]
    /\ IF IsSuback(f)
       THEN IF SubscribeOnWire(c, f[4]) /\ f[4] \notin acked
            THEN acked' = acked \cup {f[4]} /\ UNCHANGED spurious
            ELSE spurious' = spurious \cup {f[4]} /\ UNCHANGED acked
       ELSE UNCHANGED <<acked, spurious>>
    /\ UNCHANGED <<sessionVars, nconn, queue, wire, sock, wpc, rpc, ppc,
                   rresp, sent, discIdx, callerPc, call, recorded, unitVars>>

\* the broker closes the connection
BrokerClose(c) ==
    /\ sock[c] = "open"
    /\ nevents < MaxEvents
    /\ nevents' = nevents + 1
    /\ wpc[c] = "run" \/ rpc[c] \in {"read", "send"}
    /\ sock' = [sock EXCEPT ![c] = "peer_closed"]
    /\ UNCHANGED <<sessionVars, nconn, queue, wire, inbound, wpc, rpc,
                   ppc, rresp, sent, discIdx, callerPc, call, recorded, brokerVars, unitVars>>

\* ------------------------------------------------------------ specification
Next ==
    \/ \E reply \in ConnectReplies : ConnectReply(reply)
    \/ ConnectIoError
    \/ \E topic \in Topics, f \in Handlers : SubscribeCall(topic, f)
    \/ SubscribeInsert
    \/ SubscribePush
    \/ SubscribeSend
    \/ \E topic \in Topics, payload \in Payloads : Publish(topic, payload)
    \/ DisconnectCall
    \/ DisconnectJoin
    \/ \E c \in Conns : Writer(c)
    \/ \E c \in Conns : Pinger(c)
    \/ \E c \in Conns : ReaderEof(c)
    \/ \E c \in Conns : ReaderIoError(c)
    \/ \E c \in Conns : ReaderDispatchOther(c)
    \/ \E c \in Conns : ReaderDispatchSuback(c)
    \/ \E c \in Conns : ReaderDispatchPublish(c)
    \/ \E c \in Conns : ReaderSend(c)
    \/ \E c \in Conns, f \in Frames : BrokerSend(c, f)
    \/ \E c \in Conns : BrokerClose(c)

Spec == Init /\ [][Next]_vars


\* the writer gets its turn, and so does a caller whose join can return
SpecFair ==
    /\ Spec
    /\ \A c \in Conns : WF_vars(Writer(c))
    /\ WF_vars(DisconnectJoin)

\* ------------------------------------------------------------------ claims
IsPrefix(s, t) == Len(s) <= Len(t) /\ s = SubSeq(t, 1, Len(s))

Last(s) == s[Len(s)]

\* the steps in which the caller makes an API call
ConnectStep == ConnectIoError \/ \E reply \in ConnectReplies : ConnectReply(reply)

PublishStep == \E topic \in Topics, payload \in Payloads : Publish(topic, payload)

\* the caller's last call was op and is over
CallOver(op) == call.op = op /\ callerPc \in {"idle", "panicked"}

\* disconnect() has been called on connection c and has enqueued DISCONNECT
Disconnected(c) == discIdx[c] # 0

\* C1, as stated: once disconnect has been called the Session is never
\* Connected again.
C1_TerminallyDisconnected ==
    (\E c \in Conns : Disconnected(c)) => connected = 0

\* C1, amended: a disconnect call spawns no workers and leaves the Session
\* Disconnected; the Session never again holds the connection it disconnected;
\* it becomes Connected only by a connect call that succeeds, which opens a
\* new connection and starts its three workers.
C1_DisconnectedUntilConnect ==
    /\ [](connected # 0 => ~Disconnected(connected))
    /\ [][DisconnectCall => connected' = 0 /\ UNCHANGED <<nconn, wpc, rpc, ppc>>]_vars
    /\ [][connected' # connected /\ connected' # 0 =>
            /\ ConnectStep /\ call'.res = "Ok"
            /\ connected' = nconn + 1 /\ nconn' = nconn + 1
            /\ wpc[connected'] = "none" /\ wpc'[connected'] = "run"
            /\ rpc'[connected'] = "read" /\ ppc'[connected'] = "run"]_vars

\* C1 witness: a Session that was disconnected is Connected again
C1_Reconnected ==
    /\ connected # 0
    /\ \E c \in Conns : Disconnected(c) /\ c # connected /\ wpc[c] = "done"

\* C2: the writer writes the buffers in the order of their enqueueing: what is
\* on the wire is a prefix of what was enqueued and, while the writer runs,
\* what was enqueued is what is on the wire followed by what is buffered.
C2_FifoOrder ==
    \A c \in Conns :
        /\ IsPrefix(wire[c], sent[c])
        /\ wpc[c] = "run" => sent[c] = wire[c] \o queue[c]

\* C2 witness: buffers of the caller, the pinger and the reader on one wire
C2_ThreeProducersWritten ==
    \E c \in Conns :
        /\ \E i \in 1..Len(wire[c]) : IsSubscribe(wire[c][i])
        /\ \E i \in 1..Len(wire[c]) : wire[c][i] = PINGREQ
        /\ \E i \in 1..Len(wire[c]) : wire[c][i][1] = 64

C4_DisconnectReturns ==
    (callerPc = "idle" /\ call.op = "disconnect" /\ call.res = "Ok") =>
        /\ wpc[call.pre] = "done"
        /\ wire[call.pre] = SubSeq(sent[call.pre], 1, discIdx[call.pre])
        /\ Last(wire[call.pre]) = DISCONNECT
        /\ connected = 0

\* C4 witness: disconnect() returned with buffers enqueued ahead of DISCONNECT
C4_ReturnedAfterBacklog ==
    /\ callerPc = "idle" /\ call.op = "disconnect" /\ call.res = "Ok"
    /\ discIdx[call.pre] >= 3


C6_BadReplyIsAnError ==
    (call.op = "connect" /\ call.pre = 0 /\ call.arg # <<>> /\ call.arg # CONNACK) =>
        /\ callerPc = "idle" /\ call.res = "UnexpectedMessage"
        /\ connected = 0

\* C7: subscribe called on a Disconnected session returns NotConnected.
C7_SubscribeNotConnected ==
    (CallOver("subscribe") /\ call.pre = 0) =>
        callerPc = "idle" /\ call.res = "NotConnected"

\* C8, as stated: publish called on a Disconnected session returns the
\* NotConnected error to the caller.
C8_PublishReturnsError ==
    (CallOver("publish") /\ call.pre = 0) =>
        callerPc = "idle" /\ call.res = "NotConnected"

\* C8, amended: publish called on a Disconnected session panics (a
\* precondition violation, no error value is returned) and enqueues nothing.
C8_PublishPanics ==
    [][PublishStep /\ connected = 0 =>
         /\ callerPc' = "panicked" /\ call'.res = "panic"
         /\ UNCHANGED <<queue, sent, wire>>]_vars

\* C8 witness: the caller panicked in publish on a Disconnected session
C8_PublishedWhileDisconnected ==
    callerPc = "panicked" /\ call.op = "publish" /\ call.pre = 0

\* C9: disconnect called on a Disconnected session panics (precondition
\* violation), enqueues no DISCONNECT and changes no state of the session or
\* of any connection.
C9_DisconnectWhileDisconnected ==
    [][DisconnectCall /\ connected = 0 =>
         /\ callerPc' = "panicked" /\ call'.res = "panic"
         /\ UNCHANGED <<sessionVars, connVars>>]_vars

\* C9 witness: a second disconnect after a first one that returned
C9_SecondDisconnect ==
    /\ callerPc = "panicked" /\ call.op = "disconnect" /\ call.pre = 0
    /\ \E c \in Conns : Disconnected(c) /\ wpc[c] = "done"

\* C10: whenever a SUBSCRIBE for topic T with id N has been enqueued, a handler
\* for T is registered and N has been recorded as pending (it is pending until
\* a SUBACK for N has come); so the SUBACK by which the broker acknowledges a
\* SUBSCRIBE it received is never dispatched for an unknown id.
C10_RegisteredBeforeEnqueued ==
    /\ \A c \in Conns : \A i \in 1..Len(sent[c]) :
          IsSubscribe(sent[c][i]) =>
              /\ GetHandler(SubscribeTopic(sent[c][i])) # "absent"
              /\ SubscribeId(sent[c][i]) \in recorded
              /\ \/ \E k \in 1..Len(pending_subscribe_ids) :
                        pending_subscribe_ids[k] = SubscribeId(sent[c][i])
                 \/ SubscribeId(sent[c][i]) \in acked \cup spurious
    /\ \A c \in Conns : \A i \in 1..Len(inbound[c]) :
          (/\ IsSuback(inbound[c][i])
           /\ inbound[c][i][4] \in acked /\ inbound[c][i][4] \notin spurious)
          => \E k \in 1..Len(pending_subscribe_ids) :
                 pending_subscribe_ids[k] = inbound[c][i][4]

\* C10 witness: the reader is about to dispatch the SUBACK of a SUBSCRIBE
C10_SubackOfSubscribeRead ==
    \E c \in Conns :
        /\ CanRead(c) /\ IsSuback(Frame(c))
        /\ Frame(c)[4] \in acked /\ Frame(c)[4] \notin spurious


\* ======================================================= packet identifiers
\* subscribe on a Session that stays connected to a running writer, one step
\* per call: make_subscribe (lines 104-127) and the push of sub_msg[3] (lines
\* 201-204), against handle_suback for the SUBACKs of the broker.  The u8
\* counter is followed past 255 in both build profiles.
MaxSubs == 258   \* subscribe calls of a behaviour

\* the id whose SUBACK may stay outstanding over later subscribe calls; the
\* broker acknowledges every other id before the next call
Laggard == 1

IdsNone == [k |-> 0, res |-> "none", msg |-> <<>>, prev |-> 0, reused |-> FALSE]

IdsInit ==
    /\ ClientNew
    /\ oc \in BOOLEAN
    /\ arg = <<>>
    /\ ret = IdsNone
    /\ stream = <<>>
    /\ bufs = <<>>

\* make_subscribe, then pending_subscribe_ids.push(sub_msg[3]).  ret keeps the
\* call number, the packet built, the counter before the call and whether the
\* packet's id was pending when it was built.
IdsSubscribe(topic) ==
    /\ ret.res # "panic"
    /\ ret.k < MaxSubs
    /\ \A i \in 1..Len(pending_subscribe_ids) : pending_subscribe_ids[i] = Laggard
    /\ LET msg == make_subscribe(topic, next_message_id)
           r   == [k |-> ret.k + 1, res |-> "Ok", msg |-> msg, prev |-> next_message_id,
                   reused |-> \E i \in 1..Len(pending_subscribe_ids) :
                                  pending_subscribe_ids[i] = msg[4]]
       IN  IF next_message_id + 1 >= U8 /\ oc
           THEN \* line 124: attempt to add with overflow
                /\ ret' = [r EXCEPT !.res = "panic"]
                /\ UNCHANGED <<next_message_id, pending_subscribe_ids>>
           ELSE /\ ret' = r
                /\ next_message_id' = (next_message_id + 1) % U8
                /\ pending_subscribe_ids' = Append(pending_subscribe_ids, msg[4])
    /\ UNCHANGED <<connected, publish_functions, pfLock, pfPoisoned, psPoisoned,
                   connVars, callerPc, call, nevents, recorded, brokerVars,
                   oc, arg, stream, bufs>>

\* the reader dispatches the SUBACK of a pending id
IdsSuback(id) ==
    /\ ret.res # "panic"
    /\ \E i \in 1..Len(pending_subscribe_ids) : pending_subscribe_ids[i] = id
    /\ pending_subscribe_ids' = handle_suback(SubackFrame(id), pending_subscribe_ids)
    /\ UNCHANGED <<connected, next_message_id, publish_functions, pfLock, pfPoisoned,
                   psPoisoned, connVars, callerPc, call, nevents, recorded, brokerVars,
                   unitVars>>

IdsNext ==
    \/ \E topic \in Topics : IdsSubscribe(topic)
    \/ \E id \in 0..(U8 - 1) : IdsSuback(id)

SpecIds == IdsInit /\ [][IdsNext]_vars

\* C11 (as claimed): the packet id put into a new SUBSCRIBE is never an id
\* that is in the pending-subscription set at that moment.
C11_NoIdReusedWhilePending == ret.reused = FALSE

\* C12 (as claimed): the k-th make_subscribe call of a fresh Session returns a
\* SUBSCRIBE with packet id bytes [0,k] and leaves the counter one above what
\* it was (it starts at 1 and never decreases).
C12_IdIsCallNumber ==
    /\ ret.k = 0 => next_message_id = 1
    /\ ret.k > 0 =>
          /\ ret.res = "Ok"
          /\ SubSeq(ret.msg, 3, 4) = <<0, ret.k>>
          /\ next_message_id = ret.prev + 1


\* ------------------------------------------------- claims on the reader
\* the reader of c takes a frame off the stream and dispatches it
DispatchStep(c) == CanRead(c) /\ inbound'[c] = Tail(inbound[c])

\* the reader of c passes its next response to tx.send
SendStep(c) == rpc[c] = "send" /\ rresp'[c] # rresp[c]

IsPuback(b) == Len(b) = 4 /\ b[1] = 64 /\ b[2] = 2

Pubacks(bs) == {i \in 1..Len(bs) : IsPuback(bs[i])}

\* C13 (as claimed): dispatching a decoded PUBLISH with qos 1 and packet id
\* [a,b] emits exactly one PUBACK [0x40,2,a,b] onto the outbound queue,
\* whether or not a handler is registered; one with qos 0 emits no PUBACK.
C13_PubackEnqueued ==
    [][\A c \in Conns :
         /\ DispatchStep(c) /\ parse_slice(Frame(c), overflow_checks).kind = "Publish"
            => LET r == parse_slice(Frame(c), overflow_checks)
               IN  IF r.qos = 1
                   THEN /\ Cardinality(Pubacks(rresp'[c])) = 1
                        /\ Head(rresp'[c]) = <<64, 2, r.id[1], r.id[2]>>
                   ELSE Pubacks(rresp'[c]) = {}
         /\ SendStep(c) /\ IsPuback(Head(rresp[c]))
            => queue'[c] = Append(queue[c], Head(rresp[c]))]_vars

\* C14 (as claimed): a frame that fails to decode never stops the reader; it
\* stays alive and goes on to the next frame.
C14_DecodeFailureKeepsReader ==
    [][\A c \in Conns :
         DispatchStep(c)
         /\ parse_slice(Frame(c), overflow_checks).kind
                \notin {"Connack", "Pingresp", "Suback", "Publish"}
         => rpc'[c] = "read"]_vars


\* ================================================================== codec
\* parse_slice, make_publish and the remaining-length codec applied on their
\* own to inputs drawn in the initial state, in both build profiles.
MaxLength == 16384     \* remaining lengths given to encode_length

MaxPayloadLen == 130   \* payload bytes given to make_publish

MaxTopicLen == 128     \* topic bytes given to make_publish and make_subscribe (they accept 127)

\* super::decode_length(&header): the digits from offset 1 on, least
\* significant first, up to the first byte without the continuation bit;
\* bytes_read is the offset after that byte (buf is sized bytes_read + len at
\* client.rs 257-259 and holds the whole frame, type byte included)
RECURSIVE DecodeFrom(_, _, _, _)
DecodeFrom(buf, i, multiplier, value) ==
    IF i > Len(buf) THEN [len |-> 0, bytes_read |-> 0, ok |-> FALSE]   \* index out of range
    ELSE LET v == value + (buf[i] % 128) * multiplier
         IN  IF buf[i] < 128 THEN [len |-> v, bytes_read |-> i, ok |-> TRUE]
             ELSE DecodeFrom(buf, i + 1, multiplier * 128, v)

\* a decode_length that reads one length byte only
DecodeOneByte(buf) == [len |-> buf[2] % 128, bytes_read |-> 2, ok |-> TRUE]

decode_length(buf) == DecodeFrom(buf, 2, 1, 0)

Bytes(n, b) == [i \in 1..n |-> b]

\* buffers given to parse_slice: none or one byte, or a first byte of every
\* kind, every second byte and a few tails
FirstBytes == {0, 16, 32, 33, 48, 79, 144, 208, 209, 224, 255}

Tails == {<<>>, <<0>>, <<0, 0>>, <<0, 1>>, <<1, 0>>, <<0, 0, 0>>, <<0, 0, 0, 0, 0, 0>>}

ParseInputs ==
    {<<>>} \cup {<<b>> : b \in FirstBytes}
    \cup {<<b1, b2>> \o t : b1 \in FirstBytes, b2 \in 0..(U8 - 1), t \in Tails}

CodecInputs ==
    [f : {"parse_slice"}, v : ParseInputs]
    \cup [f : {"make_publish"}, topic : {Bytes(n, 97) : n \in 0..MaxTopicLen},
                                payload : {Bytes(n, 120) : n \in 0..MaxPayloadLen}]
    \cup [f : {"encode_length"}, len : 0..MaxLength]
    \cup [f : {"make_subscribe"}, topic : {Bytes(n, 97) : n \in 0..MaxTopicLen}]

CodecInit ==
    /\ ClientNew
    /\ oc \in BOOLEAN
    /\ arg \in CodecInputs
    /\ ret = <<>>
    /\ stream = <<>>
    /\ bufs = <<>>

CodecUnchanged ==
    UNCHANGED <<sessionVars, connVars, callerPc, call, nevents, recorded, brokerVars,
                oc, arg, stream, bufs>>

\* parse_slice(&v)
CodecParse ==
    /\ ret = <<>> /\ arg.f = "parse_slice"
    /\ ret' = parse_slice(arg.v, oc)
    /\ CodecUnchanged

\* parse_slice(&make_publish(topic, payload)); make_publish panics on a topic
\* of more than 127 bytes (message.rs 102-104)
CodecRoundTrip ==
    /\ ret = <<>> /\ arg.f = "make_publish"
    /\ ret' = IF Len(arg.topic) > 127 THEN [msg |-> <<>>, parsed |-> PanicRes]
              ELSE LET msg == make_publish(arg.topic, arg.payload)
                   IN  [msg |-> msg, parsed |-> parse_slice(msg, oc)]
    /\ CodecUnchanged

\* decode_length on a type byte followed by encode_length(len)
CodecVarint ==
    /\ ret = <<>> /\ arg.f = "encode_length"
    /\ ret' = LET bytes == encode_length(arg.len)
              IN  [bytes |-> bytes, dec |-> decode_length(<<48>> \o bytes)]
    /\ CodecUnchanged

\* make_subscribe(topic) on a new Client; it panics on a topic of more than
\* 127 bytes (client.rs 106-108)
CodecSubscribe ==
    /\ ret = <<>> /\ arg.f = "make_subscribe"
    /\ ret' = IF Len(arg.topic) > 127 THEN [msg |-> <<>>, accepted |-> FALSE]
              ELSE [msg |-> make_subscribe(arg.topic, next_message_id),
                    accepted |-> TRUE]
    /\ CodecUnchanged

CodecNext == CodecParse \/ CodecRoundTrip \/ CodecVarint \/ CodecSubscribe

SpecCodec == CodecInit /\ [][CodecNext]_vars

\* parse_slice has been applied to the buffer arg.v
Parsed == arg.f = "parse_slice" /\ ret # <<>>

\* C15 (as claimed): parse_slice returns an error value, and never panics, for
\* every buffer shorter than 2 bytes and for every longer buffer whose first
\* byte has a high nibble other than 2, 3, 9 and 13.
C15_ShortOrUnknownIsError ==
    Parsed /\ (Len(arg.v) < 2 \/ arg.v[1] \div 16 \notin {2, 3, 9, 13})
    => IsErr(ret)

\* C16 (as claimed): on a buffer whose first byte has high nibble 2,
\* parse_slice returns Connack exactly when the buffer is [0x20,2,0,0] and a
\* Protocol error for every other such buffer.
C16_ConnackOnlyLiteral ==
    Parsed /\ Len(arg.v) >= 2 /\ arg.v[1] \div 16 = 2
    => IF arg.v = CONNACK THEN ret.kind = "Connack" ELSE ret.kind = "Protocol"

\* C17 (as claimed): parse_slice returns Pingresp on [0xD0,0] and a Protocol
\* error on [0xD0,k] for every k in 1..255.
C17_PingrespSecondByte ==
    Parsed /\ Len(arg.v) = 2 /\ arg.v[1] = 208
    => IF arg.v[2] = 0 THEN ret.kind = "Pingresp" ELSE ret.kind = "Protocol"

\* make_publish has accepted arg.topic and its packet has been parsed
RoundTripped == arg.f = "make_publish" /\ ret # <<>> /\ Len(arg.topic) <= 127

RemainingLength == Len(arg.topic) + Len(arg.payload) + 2

\* C18 (as claimed): parse_slice(make_publish(topic, payload)) returns Publish
\* with that topic, qos 0, an empty packet id and that payload for every
\* accepted topic and every payload, also when the remaining length is 127 or
\* more.
C18_RoundTripAnyLength ==
    RoundTripped => ret.parsed = Res("Publish", <<>>, arg.topic, 0, arg.payload)

\* C18 (amended): the round trip holds while topic length + payload length + 2
\* is at most 126; from 127 on parse_slice returns no Publish: parse_publish
\* answers LengthTooLarge, or parse_slice panics on the first length byte.
C18_RoundTripBelow127 ==
    RoundTripped =>
        IF RemainingLength <= 126
        THEN ret.parsed = Res("Publish", <<>>, arg.topic, 0, arg.payload)
        ELSE ret.parsed.kind \in {"LengthTooLarge", "Panic"}

\* C18 witness: a topic and a payload, neither empty, at the largest remaining
\* length that round-trips
C18_RoundTripAt126 ==
    /\ RoundTripped /\ RemainingLength = 126
    /\ arg.topic # <<>> /\ arg.payload # <<>>
    /\ ret.parsed.kind = "Publish"

\* encode_length(arg.len) has been decoded again
Varinted == arg.f = "encode_length" /\ ret # <<>>

\* C19: for every length in [0, 16384], decode_length from offset 1 of a type
\* byte followed by encode_length(length) returns that length; the digits are
\* base 128, least significant first, with the continuation bit on every byte
\* but the last (encode(128) = [0x80,0x01], encode(16384) = [0x80,0x80,0x01]).
C19_VarintRoundTrip ==
    Varinted =>
        LET b == ret.bytes
        IN  /\ ret.dec.ok /\ ret.dec.len = arg.len
            /\ ret.dec.bytes_read = 1 + Len(b)
            /\ \A i \in 1..Len(b) :
                  /\ b[i] >= 128 <=> i < Len(b)
                  /\ b[i] % 128 = (arg.len \div (128 ^ (i - 1))) % 128
            /\ arg.len = 128 => b = <<128, 1>>
            /\ arg.len = 16384 => b = <<128, 128, 1>>

\* C19 witness: the three-byte boundary 16384 encoded and decoded
C19_Decoded16384 ==
    /\ Varinted /\ arg.len = 16384
    /\ ret.bytes = <<128, 128, 1>> /\ ret.dec.len = 16384


\* ================================================================ framing
\* The read loop of start_in_thread (lines 250-267) byte by byte: the broker
\* has sent the frames of arg back to back, stream holds the bytes not yet
\* read, and every buf handed to parse_slice is appended to bufs.  A read
\* returns as many bytes as have arrived, at most as many as asked for.
MaxSentFrames == 2   \* frames the broker sends

HeaderLen == 5       \* let mut header = [0; 5]

WellFormedFrames ==
    { PINGRESP,                              \* 2 bytes
      CONNACK,                               \* 4 bytes
      SubackFrame(1),                        \* 5 bytes
      <<48, 4, 0, 1, 97, 120>>,              \* PUBLISH "a", QoS 0, "x": 6 bytes
      <<50, 6, 0, 1, 97, 0, 27, 120>> }      \* PUBLISH "a", QoS 1, id [0,27], "x": 8 bytes

RECURSIVE Flatten(_)
Flatten(fs) == IF fs = <<>> THEN <<>> ELSE Head(fs) \o Flatten(Tail(fs))

Drop(v, n) == SubSeq(v, n + 1, Len(v))

\* buf.resize(n, 0)
Resize(v, n) == IF n <= Len(v) THEN SubSeq(v, 1, n) ELSE v \o Bytes(n - Len(v), 0)

AtHeader == [pc |-> "header", buf |-> <<>>, len |-> 0]

FramingInit ==
    /\ ClientNew
    /\ oc = TRUE
    /\ arg \in UNION {[1..n -> WellFormedFrames] : n \in 1..MaxSentFrames}
    /\ stream = Flatten(arg)
    /\ ret = AtHeader
    /\ bufs = <<>>

FramingUnchanged ==
    UNCHANGED <<sessionVars, connVars, callerPc, call, nevents, recorded, brokerVars,
                oc, arg>>

\* lines 251-259: stream.read(&mut header[..5]) returns k bytes; decode_length;
\* buf is the header resized to bytes_read + len
FramingHeader(k) ==
    /\ ret.pc = "header"
    /\ k \in 1..HeaderLen /\ k <= Len(stream)
    /\ LET header == Resize(SubSeq(stream, 1, k), HeaderLen)
           d      == decode_length(header)
       IN  ret' = IF d.ok
                  THEN [pc |-> "body", buf |-> Resize(header, d.bytes_read + d.len),
                        len |-> d.len]
                  ELSE [AtHeader EXCEPT !.pc = "panicked"]
    /\ stream' = Drop(stream, k)
    /\ UNCHANGED bufs
    /\ FramingUnchanged

\* lines 261-267: for len > 3, read_exact(&mut buf[5..]); on its error the
\* loop continues without the frame; otherwise buf goes to parse_slice
FramingBody ==
    /\ ret.pc = "body"
    /\ LET need == Len(ret.buf) - HeaderLen
       IN  IF ret.len > 3 /\ need > Len(stream)
           THEN \* the stream ends before buf is full
                /\ stream' = <<>>
                /\ UNCHANGED bufs
           ELSE IF ret.len > 3
           THEN /\ bufs' = Append(bufs, SubSeq(ret.buf, 1, HeaderLen) \o SubSeq(stream, 1, need))
                /\ stream' = Drop(stream, need)
           ELSE /\ bufs' = Append(bufs, ret.buf)
                /\ UNCHANGED stream
    /\ ret' = AtHeader
    /\ FramingUnchanged

\* lines 252-254: the header read returns 0, break
FramingEof ==
    /\ ret.pc = "header" /\ stream = <<>>
    /\ ret' = [AtHeader EXCEPT !.pc = "done"]
    /\ UNCHANGED <<stream, bufs>>
    /\ FramingUnchanged

\* line 252: the header read fails (the read timeout of connect, lines
\* 134-137, fires while nothing arrives): read(..).unwrap()
FramingHeaderError ==
    /\ ret.pc = "header" /\ stream = <<>>
    /\ ret' = [AtHeader EXCEPT !.pc = "panicked"]
    /\ UNCHANGED <<stream, bufs>>
    /\ FramingUnchanged

FramingNext ==
    \/ \E k \in 1..HeaderLen : FramingHeader(k)
    \/ FramingBody
    \/ FramingEof
    \/ FramingHeaderError

SpecFraming == FramingInit /\ [][FramingNext]_vars

\* C20 (as claimed): however the bytes of well-formed frames are split or
\* coalesced across reads, the reader dispatches exactly those frames in
\* order, consuming for each exactly its own bytes and dropping none.
C20_FramesDispatchedAsSent ==
    /\ IsPrefix(bufs, arg)
    /\ ret.pc = "header" => stream = Flatten(Drop(arg, Len(bufs)))
    /\ ret.pc = "done" => bufs = arg


\* ------------------------------------------------- claims on the workers
\* the pinger gets its turn: its sleep ends and its send is made
SpecPing == Spec /\ \A c \in Conns : WF_vars(Pinger(c))

WriterExited(c) == wpc[c] \in {"done", "panicked"}

\* C21 (as claimed): once started the pinger runs and enqueues for ever;
\* neither disconnect() nor the exit of the writer stops it.
C21_PingerNeverStops == \A c \in Conns : ppc[c] \in {"none", "run"}

\* C21 (amended): the pinger has no cancellation of its own and disconnect()
\* does not signal it, but the exit of the writer stops it: its next send
\* fails and the unwrap ends the thread; nothing is enqueued after the exit.
C21_PingerEndsAfterWriter ==
    \A c \in Conns : WriterExited(c) ~> ppc[c] = "panicked"

\* C21 witness: the pinger of a connection has pinged, disconnect() has
\* returned, and the pinger has ended on its failed send
C21_PingerEndedAfterDisconnect ==
    \E c \in Conns :
        /\ \E i \in 1..Len(wire[c]) : wire[c][i] = PINGREQ
        /\ wpc[c] = "done" /\ CallOver("disconnect") /\ call.res = "Ok"
        /\ ppc[c] = "panicked"

\* the reader thread gets its turn: a read that can return does, a frame read
\* is dispatched, a response at hand is sent
ReaderTurn(c) ==
    \/ ReaderEof(c)
    \/ ReaderDispatchOther(c)
    \/ ReaderDispatchSuback(c)
    \/ ReaderDispatchPublish(c)
    \/ ReaderSend(c)

SpecRead == Spec /\ \A c \in Conns : WF_vars(ReaderTurn(c))

ReaderLeft(c) == rpc[c] \in {"done", "panicked"}

\* a zero-byte header read: the reader is at its header read, nothing is left
\* to read on a stream that was shut down, and the read returns
ZeroByteRead(c) ==
    /\ rpc[c] = "read" /\ inbound[c] = <<>> /\ sock[c] = "shutdown"
    /\ rpc'[c] # rpc[c]

C23_NoSendUnderLock ==
    \A c \in Conns : ~(rpc[c] = "send" /\ pfLock = c)

\* a read of the reader fails: the header read when nothing arrives, the body
\* read when fewer bytes arrive than buf has room for
HeaderReadFails == ret.pc = "header" /\ stream = <<>> /\ ret'.pc # "done" /\ ret' # ret

BodyReadFails ==
    /\ ret.pc = "body" /\ ret.len > 3
    /\ Len(ret.buf) - HeaderLen > Len(stream)
    /\ ret' # ret

\* C24 (as claimed): a failed read stops the reader, on the header read and
\* on the body read alike; no further read follows it.
C24_ReadErrorStopsReader ==
    [][(HeaderReadFails \/ BodyReadFails) => ret'.pc = "panicked"]_vars

\* the reader of c dispatches a SUBACK that carries a packet id
SubackStep(c) == DispatchStep(c) /\ IsSuback(Frame(c))

\* t is s with the element at one position taken out
OneTakenOut(s, t, x) ==
    \E i \in 1..Len(s) :
        s[i] = x /\ t = SubSeq(s, 1, i - 1) \o SubSeq(s, i + 1, Len(s))

C25_UnknownIdSkipped ==
    \E c \in Conns :
        /\ 1 \in spurious /\ inbound[c] = <<>> /\ rpc[c] = "read"
        /\ pending_subscribe_ids = <<>>

\* a step of a subscribe call made on a client that is not connected: the
\* call is entered (make_subscribe), or it returns NotConnected
SubscribeEntered ==
    callerPc = "idle" /\ callerPc' = "sub_insert" /\ connected = 0

SubscribeRefused ==
    callerPc = "sub_insert" /\ call'.res = "NotConnected"

\* C26 (as claimed): no step of a subscribe call that fails with NotConnected
\* changes the packet-id counter, the pending set or the handler registry.
C26_RefusedSubscribeChangesNothing ==
    [][(SubscribeEntered \/ SubscribeRefused) =>
          UNCHANGED <<next_message_id, pending_subscribe_ids, publish_functions>>]_vars

\* C27 (as claimed): whenever the reader passes a PUBACK or a handler's reply
\* to tx.send, the writer is still receiving from the queue.
C27_ReaderSendsToLiveWriter ==
    [][\A c \in Conns : SendStep(c) => ReceiverAlive(c)]_vars

\* a thread takes the lock of pending_subscribe_ids: the caller for its push,
\* the reader of c for a SUBACK
CallerTakesPending == callerPc = "sub_push" /\ callerPc' # callerPc

ReaderTakesPending(c) ==
    DispatchStep(c) /\ parse_slice(Frame(c), overflow_checks).kind = "Suback"

\* C28 (as claimed): no thread holds the lock of publish_functions and the
\* lock of pending_subscribe_ids together: whoever takes the lock of
\* pending_subscribe_ids does not hold the other, and a reader holding the
\* lock of publish_functions is in its Publish arm, sending.
C28_NeverBothLocks ==
    [][/\ CallerTakesPending => pfLock # CallerThread
       /\ \A c \in Conns :
              /\ ReaderTakesPending(c) => pfLock # c
              /\ pfLock = c => rpc[c] = "send"]_vars

\* C28 witness: subscribe() has pushed its id under the lock of
\* pending_subscribe_ids while a reader holds the lock of publish_functions
C28_PushedWhileReaderHoldsRegistry ==
    /\ callerPc = "sub_send"
    /\ \E c \in Conns : pfLock = c /\ rpc[c] = "send"

\* the reader of c dispatches a QoS 1 PUBLISH whose handler returns a reply
RepliedPublishStep(c) ==
    /\ DispatchStep(c)
    /\ ~pfPoisoned
    /\ LET r == parse_slice(Frame(c), overflow_checks)
       IN  r.kind = "Publish" /\ r.qos = 1 /\ GetHandler(r.topic) = "ReturnsSome"

\* in bs every reply of a handler has a PUBACK of its own before it (frames
\* of the pinger or of a caller may lie between the two)
PubackBeforeReply(bs) ==
    \A i \in 1..Len(bs) :
        Cardinality({j \in 1..i : bs[j] = Reply})
            <= Cardinality({j \in 1..i : IsPuback(bs[j])})

Subscribed == arg.f = "make_subscribe" /\ ret # <<>> /\ ret.accepted

\* C30 (as claimed): for every topic make_subscribe accepts, the second byte
\* of the packet is the topic's length plus 5, is the number of bytes that
\* follow it, and is below 128, a remaining length of one byte.
C30_RemainingLengthOneByte ==
    Subscribed =>
        /\ ret.msg[2] = Len(arg.topic) + 5
        /\ ret.msg[2] = Len(ret.msg) - 2
        /\ ret.msg[2] < 128
====
